---- MODULE Spec2Model ----
(***************************************************************************)
(* RdfXmlFormatter (xml/src/formatter.rs): a streaming RDF/XML serializer. *)
(* Strings are sequences of one-character strings, XML events are records  *)
(* and the underlying quick_xml writer is the sequence `out` of the events *)
(* written so far.  Every write_event may fail.                            *)
(***************************************************************************)
EXTENDS Integers, Sequences, FiniteSets

\* ------------------------------------------------------------------ bounds
\* Most format calls (successful or not) in one run of the formatter.
MaxCalls == 3
\* Most format calls that return Err in one run of the formatter.
MaxErrors == 1
\* Longest IRI handed to split_iri in the splitter specification.
MaxIriLen == 4

\* ------------------------------------------------------- character classes
Letters ==
    {"a","b","c","d","e","f","g","h","i","j","k","l","m",
     "n","o","p","q","r","s","t","u","v","w","x","y","z",
     "A","B","C","D","E","F","G","H","I","J","K","L","M",
     "N","O","P","Q","R","S","T","U","V","W","X","Y","Z"}

Digits == {"0","1","2","3","4","5","6","7","8","9"}

\* XML NameStartChar, restricted to ASCII: ":" | [A-Z] | "_" | [a-z]
is_name_start_char(c) == c \in Letters \cup {":", "_"}

\* XML NameChar, restricted to ASCII: NameStartChar | "-" | "." | [0-9]
is_name_char(c) == is_name_start_char(c) \/ c \in Digits \cup {"-", "."}

\* ------------------------------------------------------------ Option<T>
None == <<>>
Some(x) == <<x>>
is_some(o) == o # None
is_none(o) == o = None
unwrap(o) == o[1]

\* ------------------------------------------------------------- str helpers
\* Offsets are 0-based as in Rust: s[..k] and s[k..].
Upto(s, k) == SubSeq(s, 1, k)
From(s, k) == SubSeq(s, k + 1, Len(s))

\* str::rfind(pred) for pred = |c| !is_name_char(c): offset of the last match.
rfind_not_name_char(s) ==
    LET hits == {i \in 1..Len(s) : ~is_name_char(s[i])}
    IN  IF hits = {} THEN None
        ELSE Some((CHOOSE i \in hits : \A j \in hits : j <= i) - 1)

\* str::find(is_name_start_char): offset of the first match.
find_name_start_char(s) ==
    LET hits == {i \in 1..Len(s) : is_name_start_char(s[i])}
    IN  IF hits = {} THEN None
        ELSE Some((CHOOSE i \in hits : \A j \in hits : i <= j) - 1)

\* A plausible slip: the search for the local name starts one character late
\* and its offset is still added to position_base.
split_iri_late(iri) ==
    LET base == rfind_not_name_char(iri)
    IN  IF is_some(base)
        THEN LET position_base == unwrap(base)
                 add == find_name_start_char(From(iri, position_base + 1))
             IN  IF is_some(add)
                 THEN << Upto(iri, position_base + unwrap(add)),
                         From(iri, position_base + unwrap(add)) >>
                 ELSE << iri, <<>> >>
        ELSE << iri, <<>> >>

\* A plausible slip: the namespace part stops at position_base, so that the
\* characters between it and the local name are dropped.
split_iri_drop(iri) ==
    LET base == rfind_not_name_char(iri)
    IN  IF is_some(base)
        THEN LET position_base == unwrap(base)
                 add == find_name_start_char(From(iri, position_base))
             IN  IF is_some(add)
                 THEN << Upto(iri, position_base),
                         From(iri, position_base + unwrap(add)) >>
                 ELSE << iri, <<>> >>
        ELSE << iri, <<>> >>

\* A plausible slip: find instead of rfind, so that the local name is looked
\* for after the first non-name character.
split_iri_first(iri) ==
    LET hits == {i \in 1..Len(iri) : ~is_name_char(iri[i])}
    IN  IF hits # {}
        THEN LET position_base == (CHOOSE i \in hits : \A j \in hits : i <= j) - 1
                 add == find_name_start_char(From(iri, position_base))
             IN  IF is_some(add)
                 THEN << Upto(iri, position_base + unwrap(add)),
                         From(iri, position_base + unwrap(add)) >>
                 ELSE << iri, <<>> >>
        ELSE << iri, <<>> >>

\* fn split_iri(iri: &str) -> (&str, &str)
split_iri(iri) ==
    LET base == rfind_not_name_char(iri)
    IN  IF is_some(base)
        THEN LET position_base == unwrap(base)
                 add == find_name_start_char(From(iri, position_base))
             IN  IF is_some(add)
                 THEN << Upto(iri, position_base + unwrap(add)),
                         From(iri, position_base + unwrap(add)) >>
                 ELSE << iri, <<>> >>
        ELSE << iri, <<>> >>

\* ------------------------------------------------------- string literals
STR_rdf_RDF == <<"r","d","f",":","R","D","F">>
STR_rdf_Description == <<"r","d","f",":","D","e","s","c","r","i","p","t","i","o","n">>
STR_prop == <<"p","r","o","p",":">>
STR_rdf_ns == 
    <<"h","t","t","p",":","/","/","w","w","w",".","w","3",".","o","r","g","/","1","9","9","9",
      "/","0","2","/","2","2","-","r","d","f","-","s","y","n","t","a","x","-","n","s","#">>
STR_1_0 == <<"1",".","0">>
STR_UTF_8 == <<"U","T","F","-","8">>

\* ------------------------------------------------- quick_xml::events::Event
Decl(version, encoding) ==
    [kind |-> "Decl", name |-> <<>>,
     attrs |-> << <<"version", version>>, <<"encoding", encoding>> >>,
     text |-> <<>>]
Start(name, attrs) == [kind |-> "Start", name |-> name, attrs |-> attrs, text |-> <<>>]
Empty(name, attrs) == [kind |-> "Empty", name |-> name, attrs |-> attrs, text |-> <<>>]
End(name) == [kind |-> "End", name |-> name, attrs |-> <<>>, text |-> <<>>]
Text(content) == [kind |-> "Text", name |-> <<>>, attrs |-> <<>>, text |-> content]

\* ------------------------------------------------------- rio_api::model
NamedNode(iri) == [kind |-> "NamedNode", iri |-> iri]
BlankNode(id) == [kind |-> "BlankNode", id |-> id]
Simple(value) == [kind |-> "Simple", value |-> value]
LanguageTaggedString(value, language) ==
    [kind |-> "LanguageTaggedString", value |-> value, language |-> language]
Typed(value, datatype) == [kind |-> "Typed", value |-> value, datatype |-> datatype]
Triple(s, p, o) == [subject |-> s, predicate |-> p, object |-> o]

\* ------------------------------------------------------ RdfXmlFormatter::new
\* A plausible slip: the root element is opened without declaring the rdf
\* prefix.
NewEvents_no_namespace ==
    << Decl(STR_1_0, STR_UTF_8), Start(STR_rdf_RDF, << >>) >>

\* The write_event calls of new, in order.
NewEvents ==
    << Decl(STR_1_0, STR_UTF_8),
       Start(STR_rdf_RDF, << <<"xmlns:rdf", STR_rdf_ns>> >>) >>

\* --------------------------------------------------- RdfXmlFormatter::finish
\* A plausible slip: finish forgets the open subject element.
FinishEvents_never_close(cs) == << End(STR_rdf_RDF) >>

\* A plausible slip: finish closes a subject element whether or not one is
\* open.
FinishEvents_always_close(cs) ==
    << End(STR_rdf_Description), End(STR_rdf_RDF) >>

\* The write_event calls of finish, in order.
FinishEvents(cs) ==
    (IF is_some(cs) THEN << End(STR_rdf_Description) >> ELSE << >>)
    \o << End(STR_rdf_RDF) >>

\* --------------------------------------------------- RdfXmlFormatter::format
\* A plausible slip: every subject is written as rdf:about.
description_attribute_about(subject) ==
    IF subject.kind = "NamedNode"
    THEN <<"rdf:about", subject.iri>>
    ELSE <<"rdf:about", subject.id>>

\* The attribute pushed on description_open.
description_attribute(subject) ==
    IF subject.kind = "NamedNode"
    THEN <<"rdf:about", subject.iri>>
    ELSE <<"rdf:nodeID", subject.id>>

\* A plausible slip: the open subject element is not closed before the next
\* one is opened.
SubjectEvents_no_close(cs, subject) ==
    IF cs # Some(subject)
    THEN << Start(STR_rdf_Description, << description_attribute(subject) >>) >>
    ELSE << >>

\* A plausible slip: subjects are compared by their string alone, so that a
\* named node and a blank node with the same string are one subject.
SubjectEvents_by_string(cs, subject) ==
    LET str(n) == IF n.kind = "NamedNode" THEN n.iri ELSE n.id
    IN  IF is_none(cs) \/ str(unwrap(cs)) # str(subject)
        THEN (IF is_some(cs) THEN << End(STR_rdf_Description) >> ELSE << >>)
             \o << Start(STR_rdf_Description, << description_attribute(subject) >>) >>
        ELSE << >>

\* "We open a new rdf:Description if useful"
SubjectEvents(cs, subject) ==
    IF cs # Some(subject)
    THEN (IF is_some(cs) THEN << End(STR_rdf_Description) >> ELSE << >>)
         \o << Start(STR_rdf_Description, << description_attribute(subject) >>) >>
    ELSE << >>

\* A plausible slip: without a local name the whole IRI becomes the tag.
prop_qname_whole(iri) ==
    LET prop_value == split_iri(iri)[2]
    IN  IF prop_value = <<>> THEN iri ELSE prop_value

\* let (prop_qname, prop_xmlns) = if prop_value.is_empty() { .. } else { .. }
prop_qname(iri) ==
    LET prop_value == split_iri(iri)[2]
    IN  IF prop_value = <<>> THEN STR_prop ELSE prop_value

prop_xmlns(iri) ==
    LET prop_prefix == split_iri(iri)[1]
        prop_value == split_iri(iri)[2]
    IN  IF prop_value = <<>> THEN <<"xmlns:prop", prop_prefix>>
                             ELSE <<"xmlns", prop_prefix>>

\* A plausible slip: a language-tagged string also gets the datatype
\* attribute (rdf:langString).
object_attributes_lang_datatype(object) ==
    CASE object.kind = "NamedNode" -> << <<"rdf:resource", object.iri>> >>
      [] object.kind = "BlankNode" -> << <<"rdf:nodeID", object.id>> >>
      [] object.kind = "Simple" -> << >>
      [] object.kind = "LanguageTaggedString" ->
            << <<"xml:lang", object.language>>, <<"rdf:datatype", STR_rdf_ns>> >>
      [] object.kind = "Typed" -> << <<"rdf:datatype", object.datatype.iri>> >>

\* The attributes `match triple.object` pushes on property_open.
object_attributes(object) ==
    CASE object.kind = "NamedNode" -> << <<"rdf:resource", object.iri>> >>
      [] object.kind = "BlankNode" -> << <<"rdf:nodeID", object.id>> >>
      [] object.kind = "Simple" -> << >>
      [] object.kind = "LanguageTaggedString" -> << <<"xml:lang", object.language>> >>
      [] object.kind = "Typed" -> << <<"rdf:datatype", object.datatype.iri>> >>

\* A plausible slip: an empty literal is treated as "no content".
content_skip_empty(object) ==
    IF object.kind \in {"NamedNode", "BlankNode"} \/ object.value = <<>>
    THEN None
    ELSE Some(object.value)

\* The value of `let content = match triple.object`.
content(object) ==
    IF object.kind \in {"NamedNode", "BlankNode"}
    THEN None
    ELSE Some(object.value)

\* A plausible slip: the end tag is built from prop_value instead of prop_qname.
PropertyEvents_end_value(predicate, object) ==
    LET attrs == << prop_xmlns(predicate.iri) >> \o object_attributes(object)
    IN  IF is_some(content(object))
        THEN << Start(prop_qname(predicate.iri), attrs),
                Text(unwrap(content(object))),
                End(split_iri(predicate.iri)[2]) >>
        ELSE << Empty(prop_qname(predicate.iri), attrs) >>

\* The write_event calls format makes for the property element.
PropertyEvents(predicate, object) ==
    LET attrs == << prop_xmlns(predicate.iri) >> \o object_attributes(object)
    IN  IF is_some(content(object))
        THEN << Start(prop_qname(predicate.iri), attrs),
                Text(unwrap(content(object))),
                End(prop_qname(predicate.iri)) >>
        ELSE << Empty(prop_qname(predicate.iri), attrs) >>

\* All write_event calls of format(triple), in order.
FormatEvents(cs, triple) ==
    SubjectEvents(cs, triple.subject) \o PropertyEvents(triple.predicate, triple.object)

\* ------------------------------------------------------------ input domains
SubjectS == NamedNode(<<"s">>)
SubjectT == NamedNode(<<"t">>)
SubjectB == BlankNode(<<"s">>)
Subjects == {SubjectS, SubjectT, SubjectB}

\* Predicates: one that splits, one without a local name, and one whose
\* local name is the qualified name of the subject element.
PredSplit == NamedNode(<<"/","p">>)
PredNoLocal == NamedNode(<<"/">>)
PredDescription == NamedNode(<<"h","t","t","p",":","/","/","e","/">> \o STR_rdf_Description)

\* The triples of the formatter specification: every subject with a
\* node object, and one subject with each kind of property element.
Triples ==
    {Triple(s, PredSplit, NamedNode(<<"o">>)) : s \in Subjects}
    \cup {Triple(SubjectS, PredDescription, Simple(<<"v">>)),
          Triple(SubjectS, PredNoLocal, Typed(<< >>, NamedNode(<<"/","t">>)))}

\* ------------------------------------------------------------------- state
VARIABLES
    phase,            \* "init", "open", "finished", "new_failed", "finish_failed"
    out,              \* the events written to the quick_xml Writer so far
    current_subject,  \* RdfXmlFormatter.current_subject
    failed,           \* some operation has returned Err
    triples,          \* the triples of the format calls that returned Ok
    ncalls,           \* number of format calls made
    nerrs,            \* number of format calls that returned Err
    last,             \* the last operation: its name, result, and the state before it
    iri,              \* splitter specification: the argument
    object,           \* splitter specification: the object of the triple
    split_ret,        \* splitter specification: Some(split_iri(iri)) once called
    twin              \* pair specification: the second RdfXmlFormatter, at rest

fvars == <<phase, out, current_subject, failed, triples, ncalls, nerrs, last>>
pvars == <<iri, object, split_ret, twin>>
vars == <<phase, out, current_subject, failed, triples, ncalls, nerrs, last,
          iri, object, split_ret, twin>>

\* The formatter in use, with its history, as one value.
Formatter ==
    [phase |-> phase, out |-> out, current_subject |-> current_subject,
     failed |-> failed, triples |-> triples, ncalls |-> ncalls, nerrs |-> nerrs,
     last |-> last]

\* A formatter on which new has not been called yet.
Unborn ==
    [phase |-> "init", out |-> << >>, current_subject |-> None,
     failed |-> FALSE, triples |-> << >>, ncalls |-> 0, nerrs |-> 0,
     last |-> [op |-> "none", ok |-> TRUE, from |-> 0, pre |-> None]]

Call(op, ok) == [op |-> op, ok |-> ok, from |-> Len(out), pre |-> current_subject]

Init ==
    /\ phase = "init"
    /\ out = << >>
    /\ current_subject = None
    /\ failed = FALSE
    /\ triples = << >>
    /\ ncalls = 0
    /\ nerrs = 0
    /\ last = [op |-> "none", ok |-> TRUE, from |-> 0, pre |-> None]
    /\ iri = << >>
    /\ object = Simple(<< >>)
    /\ split_ret = None
    /\ twin = Unborn

\* RdfXmlFormatter::new, every write succeeding.
NewOk ==
    /\ phase = "init"
    /\ out' = out \o NewEvents
    /\ current_subject' = None
    /\ phase' = "open"
    /\ last' = Call("new", TRUE)
    /\ UNCHANGED <<failed, triples, ncalls, nerrs, pvars>>

\* RdfXmlFormatter::new, write number n + 1 failing: no instance is returned.
NewErr ==
    /\ phase = "init"
    /\ \E n \in 0..(Len(NewEvents) - 1) :
          out' = out \o SubSeq(NewEvents, 1, n)
    /\ phase' = "new_failed"
    /\ failed' = TRUE
    /\ last' = Call("new", FALSE)
    /\ UNCHANGED <<current_subject, triples, ncalls, nerrs, pvars>>

\* A plausible slip: current_subject is assigned only where the subject
\* element is opened, and not when another one was open before.
FormatOkWith_assign_once(t) ==
    /\ phase = "open"
    /\ ncalls < MaxCalls
    /\ out' = out \o FormatEvents(current_subject, t)
    /\ current_subject' = IF is_some(current_subject) THEN current_subject
                                                      ELSE Some(t.subject)
    /\ triples' = Append(triples, t)
    /\ ncalls' = ncalls + 1
    /\ last' = Call("format", TRUE)
    /\ UNCHANGED <<phase, failed, nerrs, pvars>>

\* A plausible slip: the namespace of a predicate is declared only the
\* first time the formatter writes that predicate.
FormatOkWith_declare_once(t) ==
    /\ phase = "open"
    /\ ncalls < MaxCalls
    /\ LET evs == FormatEvents(current_subject, t)
           k == Len(SubjectEvents(current_subject, t.subject)) + 1
           seen == \E i \in 1..Len(triples) : triples[i].predicate = t.predicate
       IN  out' = out \o
                  [i \in 1..Len(evs) |->
                      IF i = k /\ seen
                      THEN [evs[i] EXCEPT !.attrs = Tail(evs[i].attrs)]
                      ELSE evs[i]]
    /\ current_subject' = Some(t.subject)
    /\ triples' = Append(triples, t)
    /\ ncalls' = ncalls + 1
    /\ last' = Call("format", TRUE)
    /\ UNCHANGED <<phase, failed, nerrs, pvars>>

\* format(t), every write succeeding.
FormatOkWith(t) ==
    /\ phase = "open"
    /\ ncalls < MaxCalls
    /\ out' = out \o FormatEvents(current_subject, t)
    /\ current_subject' = Some(t.subject)
    /\ triples' = Append(triples, t)
    /\ ncalls' = ncalls + 1
    /\ last' = Call("format", TRUE)
    /\ UNCHANGED <<phase, failed, nerrs, pvars>>

FormatOk == \E t \in Triples : FormatOkWith(t)

\* A plausible slip: the result of a failing write is ignored (no `?`), so
\* that the writes after it are still made before the error is returned.
FormatErr_keep_writing ==
    /\ phase = "open"
    /\ ncalls < MaxCalls
    /\ nerrs < MaxErrors
    /\ \E t \in Triples :
          LET evs == FormatEvents(current_subject, t)
          IN  \E n \in 0..(Len(evs) - 1) :
                 out' = out \o SubSeq(evs, 1, n) \o SubSeq(evs, n + 2, Len(evs))
    /\ ncalls' = ncalls + 1
    /\ nerrs' = nerrs + 1
    /\ failed' = TRUE
    /\ last' = Call("format", FALSE)
    /\ UNCHANGED <<phase, current_subject, triples, pvars>>

\* A plausible slip: current_subject is assigned as soon as the new subject
\* element is opened, before the property element is written.
FormatErr_assign_early ==
    /\ phase = "open"
    /\ ncalls < MaxCalls
    /\ nerrs < MaxErrors
    /\ \E t \in Triples :
          LET evs == FormatEvents(current_subject, t)
              opened == Len(SubjectEvents(current_subject, t.subject))
          IN  \E n \in 0..(Len(evs) - 1) :
                 /\ out' = out \o SubSeq(evs, 1, n)
                 /\ current_subject' =
                       IF opened > 0 /\ n >= opened THEN Some(t.subject)
                                                    ELSE current_subject
    /\ ncalls' = ncalls + 1
    /\ nerrs' = nerrs + 1
    /\ failed' = TRUE
    /\ last' = Call("format", FALSE)
    /\ UNCHANGED <<phase, triples, pvars>>

\* format(triple), write number n + 1 failing: `?` returns before the
\* assignment to current_subject.
FormatErr ==
    /\ phase = "open"
    /\ ncalls < MaxCalls
    /\ nerrs < MaxErrors
    /\ \E t \in Triples :
          LET evs == FormatEvents(current_subject, t)
          IN  \E n \in 0..(Len(evs) - 1) :
                 out' = out \o SubSeq(evs, 1, n)
    /\ ncalls' = ncalls + 1
    /\ nerrs' = nerrs + 1
    /\ failed' = TRUE
    /\ last' = Call("format", FALSE)
    /\ UNCHANGED <<phase, current_subject, triples, pvars>>

\* finish(self), every write succeeding: the sink is returned.
FinishOk ==
    /\ phase = "open"
    /\ out' = out \o FinishEvents(current_subject)
    /\ phase' = "finished"
    /\ last' = Call("finish", TRUE)
    /\ UNCHANGED <<current_subject, failed, triples, ncalls, nerrs, pvars>>

\* finish(self), write number n + 1 failing: self is dropped.
FinishErr ==
    /\ phase = "open"
    /\ LET evs == FinishEvents(current_subject)
       IN  \E n \in 0..(Len(evs) - 1) :
              out' = out \o SubSeq(evs, 1, n)
    /\ phase' = "finish_failed"
    /\ failed' = TRUE
    /\ last' = Call("finish", FALSE)
    /\ UNCHANGED <<current_subject, triples, ncalls, nerrs, pvars>>

Next == NewOk \/ NewErr \/ FormatOk \/ FormatErr \/ FinishOk \/ FinishErr

Spec == Init /\ [][Next]_vars

\* ------------------------------------------------- splitter specification
\* split_iri, and format on a formatter that new has just returned, applied
\* to every predicate IRI of at most MaxIriLen characters over Alphabet and
\* to every kind of object.
Alphabet == {"a", ":", "1", "-", "/"}

Iris == UNION {[1..k -> Alphabet] : k \in 0..MaxIriLen}

Objects ==
    {NamedNode(<<"o">>), BlankNode(<<"b">>)}
    \cup {Simple(v) : v \in {<< >>, <<"v">>}}
    \cup {LanguageTaggedString(v, <<"e","n">>) : v \in {<< >>, <<"v">>}}
    \cup {Typed(v, NamedNode(<<"/","t">>)) : v \in {<< >>, <<"v">>}}

\* The triple of the splitter specification.
ArgTriple == Triple(SubjectS, NamedNode(iri), object)

InitPure ==
    /\ phase = "open"
    /\ out = NewEvents
    /\ current_subject = None
    /\ failed = FALSE
    /\ triples = << >>
    /\ ncalls = 0
    /\ nerrs = 0
    /\ last = [op |-> "new", ok |-> TRUE, from |-> 0, pre |-> None]
    /\ iri \in Iris
    /\ object \in Objects
    /\ split_ret = None
    /\ twin = Unborn

\* split_iri(iri)
CallSplit ==
    /\ is_none(split_ret)
    /\ split_ret' = Some(split_iri(iri))
    /\ UNCHANGED <<fvars, iri, object, twin>>

\* The first format call, with predicate iri.
FormatArg ==
    /\ ncalls = 0
    /\ FormatOkWith(ArgTriple)

NextPure == CallSplit \/ FormatArg

SpecPure == InitPure /\ [][NextPure]_vars

\* ----------------------------------------------------- pair specification
\* Two RdfXmlFormatter values, each with its own writer.  One is in use and
\* the other at rest; Switch exchanges them, so that both are driven by the
\* same operations.  Every write succeeds.
MaxPairCalls == 3

PairTriples ==
    {Triple(SubjectS, PredSplit, NamedNode(<<"o">>)),
     Triple(SubjectT, PredSplit, NamedNode(<<"o">>)),
     Triple(SubjectS, PredNoLocal, Typed(<< >>, NamedNode(<<"/","t">>)))}

Switch ==
    /\ twin' = Formatter
    /\ phase' = twin.phase
    /\ out' = twin.out
    /\ current_subject' = twin.current_subject
    /\ failed' = twin.failed
    /\ triples' = twin.triples
    /\ ncalls' = twin.ncalls
    /\ nerrs' = twin.nerrs
    /\ last' = twin.last
    /\ UNCHANGED <<iri, object, split_ret>>

PairFormat ==
    /\ ncalls < MaxPairCalls
    /\ \E t \in PairTriples : FormatOkWith(t)

NextPair == NewOk \/ PairFormat \/ FinishOk \/ Switch

SpecPair == Init /\ [][NextPair]_vars

\* ======================================================================
\* Properties
\* ======================================================================

\* Strings of the documentation example and of test_split_iri.
STR_example_foo == <<"h","t","t","p",":","/","/","e","x","a","m","p","l","e",".","c","o","m","/","f","o","o">>
STR_type == <<"t","y","p","e">>
STR_schema_org == <<"h","t","t","p",":","/","/","s","c","h","e","m","a",".","o","r","g","/">>
STR_Person == <<"P","e","r","s","o","n">>

\* The events written by the last operation.
Emitted == SubSeq(out, last.from + 1, Len(out))

\* The last operation was a format call that returned Ok(()).
Formatted == last.op = "format" /\ last.ok

\* The triple of the last successful format call.
LastTriple == triples[Len(triples)]

\* An event that opens or closes a subject element.
IsDescriptionStart(e) ==
    /\ e.kind = "Start"
    /\ e.name = STR_rdf_Description
    /\ Len(e.attrs) = 1
    /\ e.attrs[1][1] \in {"rdf:about", "rdf:nodeID"}

\* The events of the property element among the events of one format call:
\* everything from the first start or empty tag that is not the start tag of
\* a subject element.
PropertyElementOf(evs) ==
    LET first == {i \in 1..Len(evs) :
                     /\ evs[i].kind \in {"Start", "Empty"}
                     /\ ~IsDescriptionStart(evs[i])}
    IN  IF first = {} THEN << >>
        ELSE SubSeq(evs, CHOOSE i \in first : \A j \in first : i <= j, Len(evs))

PropertyElement == PropertyElementOf(Emitted)

AttrNames(e) == {e.attrs[i][1] : i \in 1..Len(e.attrs)}

\* The open elements after the events evs, innermost last, and whether
\* every end tag so far closed the innermost open element of the same name.
RECURSIVE Nest(_, _)
Nest(evs, k) ==
    IF k = 0 THEN [stack |-> << >>, ok |-> TRUE]
    ELSE LET p == Nest(evs, k - 1)
             e == evs[k]
             depth == Len(p.stack)
         IN  CASE e.kind = "Start" -> [stack |-> Append(p.stack, e), ok |-> p.ok]
               [] e.kind = "End" ->
                    IF depth > 0 /\ p.stack[depth].name = e.name
                    THEN [stack |-> SubSeq(p.stack, 1, depth - 1), ok |-> p.ok]
                    ELSE [stack |-> SubSeq(p.stack, 1, depth - 1), ok |-> FALSE]
               [] OTHER -> p

Nesting(evs) == Nest(evs, Len(evs))

CountEvents(evs, kind, name) ==
    Cardinality({i \in 1..Len(evs) : evs[i].kind = kind /\ evs[i].name = name})

\* The number of maximal runs of consecutive triples with equal subject.
Runs(ts) ==
    Cardinality({i \in 1..Len(ts) : i = 1 \/ ts[i].subject # ts[i - 1].subject})

\* ---------------------------------------------------------------- C1
\* C1: after any sequence of successful format calls the number of
\* rdf:Description start tags written equals the number of maximal runs of
\* consecutive triples with equal subject.
C1_Grouping ==
    (~failed /\ phase \in {"open", "finished"}) =>
        CountEvents(out, "Start", STR_rdf_Description) = Runs(triples)

\* ---------------------------------------------------------------- C2
\* C2: after format calls and finish, every write succeeding, the last event
\* is the end tag of rdf:RDF; if a triple was formatted the event before it
\* is an rdf:Description end tag and finish wrote exactly one such end tag;
\* if none was formatted finish wrote no rdf:Description end tag.
C2_DocumentClosure ==
    (~failed /\ phase = "finished") =>
        /\ Len(out) >= 1
        /\ out[Len(out)] = End(STR_rdf_RDF)
        /\ last.op = "finish"
        /\ IF triples # << >>
           THEN /\ Len(out) >= 2
                /\ out[Len(out) - 1] = End(STR_rdf_Description)
                /\ CountEvents(Emitted, "End", STR_rdf_Description) = 1
           ELSE CountEvents(Emitted, "End", STR_rdf_Description) = 0

C2_Witness ==
    /\ ~failed
    /\ phase = "finished"
    /\ Len(triples) = 2
    /\ triples[1].subject # triples[2].subject

\* ---------------------------------------------------------------- C3
\* C3: after new, successful format calls and a successful finish, the events
\* are properly nested: every end tag closes the innermost open element of
\* the same name, no element is left open, and there are as many
\* rdf:Description end tags as start tags.  Before finish the nesting is
\* proper as well and rdf:RDF, the outermost element, is still open.
C3_WellFormed ==
    ~failed =>
        /\ phase = "finished" =>
              /\ Nesting(out).ok
              /\ Nesting(out).stack = << >>
              /\ CountEvents(out, "Start", STR_rdf_RDF) >= 1
              /\ CountEvents(out, "End", STR_rdf_Description)
                    = CountEvents(out, "Start", STR_rdf_Description)
        /\ phase = "open" =>
              /\ Nesting(out).ok
              /\ Len(Nesting(out).stack) >= 1
              /\ Nesting(out).stack[1].name = STR_rdf_RDF

C3_Witness ==
    /\ ~failed
    /\ phase = "finished"
    /\ Len(triples) = 3
    /\ triples[1].subject # triples[2].subject
    /\ \E i \in 1..Len(out) : out[i].kind = "Text"
    /\ \E i \in 1..Len(out) : out[i].kind = "Empty"

\* ---------------------------------------------------------------- C4
\* The last successful format call wrote exactly one property element, as
\* the last events of the stream, for the predicate of its triple, and the
\* innermost element open around it is an rdf:Description whose single
\* attribute is rdf:about = IRI for a named-node subject and
\* rdf:nodeID = id for a blank-node subject.
C4_Attributed ==
    LET pe == PropertyElement
        t == LastTriple
        before == SubSeq(out, 1, Len(out) - Len(pe))
        open == Nesting(before).stack
        parent == open[Len(open)]
    IN  /\ Len(pe) >= 1
        /\ Cardinality({i \in 1..Len(pe) : pe[i].kind \in {"Start", "Empty"}}) = 1
        /\ \A i \in 1..(Len(Emitted) - Len(pe)) :
              \/ IsDescriptionStart(Emitted[i])
              \/ Emitted[i] = End(STR_rdf_Description)
        /\ IF pe[1].attrs[1][1] = "xmlns"
           THEN pe[1].attrs[1][2] \o pe[1].name = t.predicate.iri
           ELSE pe[1].attrs[1][2] = t.predicate.iri
        /\ Len(open) >= 1
        /\ parent.name = STR_rdf_Description
        /\ parent.attrs =
              << IF t.subject.kind = "NamedNode"
                 THEN <<"rdf:about", t.subject.iri>>
                 ELSE <<"rdf:nodeID", t.subject.id>> >>

\* The documentation example: one triple, then finish.
C4_Example ==
    LET s == NamedNode(STR_example_foo)
        t == Triple(s, NamedNode(STR_rdf_ns \o STR_type),
                    NamedNode(STR_schema_org \o STR_Person))
    IN  NewEvents \o FormatEvents(None, t) \o FinishEvents(Some(s)) =
           << Decl(STR_1_0, STR_UTF_8),
              Start(STR_rdf_RDF, << <<"xmlns:rdf", STR_rdf_ns>> >>),
              Start(STR_rdf_Description, << <<"rdf:about", STR_example_foo>> >>),
              Empty(STR_type, << <<"xmlns", STR_rdf_ns>>,
                                 <<"rdf:resource", STR_schema_org \o STR_Person>> >>),
              End(STR_rdf_Description),
              End(STR_rdf_RDF) >>

C5_SelfClosingVsContent ==
    Formatted =>
        LET pe == PropertyElement
            o == LastTriple.object
        IN  IF o.kind \in {"NamedNode", "BlankNode"}
            THEN /\ Len(pe) = 1
                 /\ pe[1].kind = "Empty"
                 /\ \A i \in 1..Len(Emitted) : Emitted[i].kind # "Text"
            ELSE /\ Len(pe) = 3
                 /\ pe[1].kind = "Start"
                 /\ pe[2].kind = "Text"
                 /\ pe[2].text = o.value
                 /\ pe[3].kind = "End"
                 /\ pe[3].name = pe[1].name
                 /\ Cardinality({i \in 1..Len(Emitted) : Emitted[i].kind = "Text"}) = 1

C5_Witness ==
    /\ Formatted
    /\ LastTriple.object.kind = "Typed"
    /\ LastTriple.object.value = << >>
    /\ Len(PropertyElement) = 3
    /\ PropertyElement[2].text = << >>

\* ---------------------------------------------------------------- C6
\* C6: the property element's first attribute is its one namespace
\* declaration, followed by at most one attribute for the object:
\* rdf:resource (named node), rdf:nodeID (blank node), xml:lang
\* (language-tagged literal), rdf:datatype (typed literal), none (simple
\* literal); xml:lang and rdf:datatype never occur together, and neither
\* occurs with rdf:resource or rdf:nodeID.
C6_ObjectAttribute ==
    Formatted =>
        LET pe == PropertyElement
            o == LastTriple.object
            e == pe[1]
            rest == SubSeq(e.attrs, 2, Len(e.attrs))
        IN  /\ Len(pe) >= 1
            /\ Len(e.attrs) >= 1
            /\ e.attrs[1][1] \in {"xmlns", "xmlns:prop"}
            /\ \A i \in 2..Len(e.attrs) : e.attrs[i][1] \notin {"xmlns", "xmlns:prop"}
            /\ Len(rest) <= 1
            /\ CASE o.kind = "NamedNode" -> rest = << <<"rdf:resource", o.iri>> >>
                 [] o.kind = "BlankNode" -> rest = << <<"rdf:nodeID", o.id>> >>
                 [] o.kind = "Simple" -> rest = << >>
                 [] o.kind = "LanguageTaggedString" -> rest = << <<"xml:lang", o.language>> >>
                 [] o.kind = "Typed" -> rest = << <<"rdf:datatype", o.datatype.iri>> >>
            /\ ~({"xml:lang", "rdf:datatype"} \subseteq AttrNames(e))
            /\ AttrNames(e) \cap {"rdf:resource", "rdf:nodeID"} # {}
                  => AttrNames(e) \cap {"xml:lang", "rdf:datatype"} = {}

C6_Witness ==
    /\ Formatted
    /\ LastTriple.object.kind = "LanguageTaggedString"
    /\ Len(PropertyElement) = 3
    /\ AttrNames(PropertyElement[1]) = {"xmlns:prop", "xml:lang"}

\* ---------------------------------------------------------------- C7
\* C7: when split_iri returns a non-empty local part for the predicate, the
\* property element's tag is that local part and it declares xmlns = the
\* namespace part; when the local part is empty (the empty predicate
\* included) the tag is "prop:" and it declares xmlns:prop = the whole
\* predicate IRI.  Either way the predicate IRI is the declared namespace
\* followed by the tag (xmlns) or the declared namespace alone (xmlns:prop).
C7_PropertyTag ==
    (Formatted /\ is_some(split_ret) /\ LastTriple.predicate.iri = iri) =>
        LET pe == PropertyElement
            e == pe[1]
            namespace_part == unwrap(split_ret)[1]
            local_part == unwrap(split_ret)[2]
        IN  /\ Len(pe) >= 1
            /\ Len(e.attrs) >= 1
            /\ IF local_part # << >>
               THEN /\ e.name = local_part
                    /\ e.attrs[1] = <<"xmlns", namespace_part>>
               ELSE /\ e.name = STR_prop
                    /\ e.attrs[1] = <<"xmlns:prop", iri>>
            /\ IF e.attrs[1][1] = "xmlns"
               THEN e.attrs[1][2] \o e.name = iri
               ELSE e.attrs[1][2] = iri

C7_Witness ==
    /\ Formatted
    /\ is_some(split_ret)
    /\ iri # << >>
    /\ unwrap(split_ret)[2] = << >>
    /\ PropertyElement[1].name = STR_prop
    /\ PropertyElement[1].attrs[1] = <<"xmlns:prop", iri>>

\* ---------------------------------------------------------------- C8
\* C8: for every IRI, the empty one included, split_iri returns a pair
\* whose namespace part followed by its local part is the IRI.
C8_Reconstruction ==
    is_some(split_ret) =>
        /\ Len(unwrap(split_ret)) = 2
        /\ unwrap(split_ret)[1] \o unwrap(split_ret)[2] = iri

C8_Witness ==
    /\ is_some(split_ret)
    /\ unwrap(split_ret)[1] # << >>
    /\ unwrap(split_ret)[2] # << >>
    /\ Len(iri) >= 3

\* ---------------------------------------------------------------- C9
\* C9: the local part split_iri returns is empty, or its first character is
\* a name-start character and all its characters are name characters.
C9_LocalNameValid ==
    is_some(split_ret) =>
        LET local_part == unwrap(split_ret)[2]
        IN  \/ local_part = << >>
            \/ /\ is_name_start_char(local_part[1])
               /\ \A i \in 1..Len(local_part) : is_name_char(local_part[i])

C9_Witness ==
    /\ is_some(split_ret)
    /\ Len(unwrap(split_ret)[2]) >= 2
    /\ \E i \in 1..Len(unwrap(split_ret)[2]) :
          ~is_name_start_char(unwrap(split_ret)[2][i])

\* ---------------------------------------------------------------- C10
\* C10: split_iri returns an empty local part, and the whole IRI as the
\* namespace part, exactly when the IRI has no non-name character or has no
\* name-start character after its last non-name character; otherwise the
\* local part starts at the first name-start character after the last
\* non-name character.  split_iri("http://schema.org/Person") =
\* ("http://schema.org/", "Person") and split_iri("http://schema.org/") =
\* ("http://schema.org/", "").
C10_Fallback ==
    /\ split_iri(STR_schema_org \o STR_Person) = <<STR_schema_org, STR_Person>>
    /\ split_iri(STR_schema_org) = <<STR_schema_org, << >> >>
    /\ is_some(split_ret) =>
          LET namespace_part == unwrap(split_ret)[1]
              local_part == unwrap(split_ret)[2]
              non_name == {i \in 1..Len(iri) : ~is_name_char(iri[i])}
              last_non_name == CHOOSE i \in non_name : \A j \in non_name : j <= i
              starts == {i \in 1..Len(iri) :
                            /\ non_name # {}
                            /\ i > last_non_name
                            /\ is_name_start_char(iri[i])}
              first_start == CHOOSE i \in starts : \A j \in starts : i <= j
          IN  /\ (local_part = << >>) <=> (non_name = {} \/ starts = {})
              /\ local_part = << >> => namespace_part = iri
              /\ local_part # << >> =>
                    /\ namespace_part = SubSeq(iri, 1, first_start - 1)
                    /\ local_part = SubSeq(iri, first_start, Len(iri))

C10_Witness ==
    /\ is_some(split_ret)
    /\ unwrap(split_ret) = <<iri, << >> >>
    /\ Len(iri) >= 2
    /\ ~is_name_char(iri[1])
    /\ is_name_char(iri[Len(iri)])

\* ---------------------------------------------------------------- C11
\* C11: current_subject is None from new until the first format call that
\* returns Ok; after every format(t) that returned Ok it is Some(t.subject),
\* by value, so that no successful format call sets it back to None.
C11_RetainedSubject ==
    /\ phase \in {"open", "finished", "finish_failed"} =>
          current_subject = IF triples = << >> THEN None
                            ELSE Some(LastTriple.subject)
    /\ Formatted =>
          /\ is_some(current_subject)
          /\ unwrap(current_subject).kind = LastTriple.subject.kind
          /\ unwrap(current_subject) = LastTriple.subject

C11_Witness ==
    /\ Formatted
    /\ Len(triples) >= 2
    /\ is_some(last.pre)
    /\ last.pre # current_subject
    /\ current_subject = Some(SubjectB)

\* ---------------------------------------------------------------- C12
\* C12: new followed directly by finish, every write succeeding, writes
\* exactly the XML declaration, the rdf:RDF start tag and the rdf:RDF end
\* tag, and no rdf:Description start or end tag.
C12_EmptyStream ==
    (phase = "finished" /\ ~failed /\ ncalls = 0) =>
        /\ Len(out) = 3
        /\ out[1].kind = "Decl"
        /\ out[2].kind = "Start" /\ out[2].name = STR_rdf_RDF
        /\ out[3].kind = "End" /\ out[3].name = STR_rdf_RDF
        /\ \A i \in 1..Len(out) : out[i].name # STR_rdf_Description

C12_Witness ==
    /\ phase = "finished"
    /\ ~failed
    /\ ncalls = 0
    /\ last.op = "finish"
    /\ last.from = 2

\* ---------------------------------------------------------------- C13
\* C13: a new that returns Ok has written exactly two events, which stay
\* the first two of the document: the XML declaration with version 1.0 and
\* encoding UTF-8, then the start tag rdf:RDF whose only attribute is
\* xmlns:rdf = http://www.w3.org/1999/02/22-rdf-syntax-ns#; the formatter it
\* returns has current_subject = None.  If one of the two writes fails, new
\* returns the error and there is no formatter: no operation follows.
C13_Initialization ==
    /\ (last.op = "new" /\ last.ok) =>
          /\ phase = "open"
          /\ Len(out) = 2
          /\ current_subject = None
    /\ phase \in {"open", "finished", "finish_failed"} =>
          /\ Len(out) >= 2
          /\ out[1].kind = "Decl"
          /\ out[1].attrs = << <<"version", <<"1", ".", "0">> >>,
                               <<"encoding", <<"U", "T", "F", "-", "8">> >> >>
          /\ out[2].kind = "Start"
          /\ out[2].name = <<"r", "d", "f", ":", "R", "D", "F">>
          /\ out[2].attrs = << <<"xmlns:rdf", STR_rdf_ns>> >>
    /\ (last.op = "new" /\ ~last.ok) =>
          /\ phase = "new_failed"
          /\ Len(out) < 2
          /\ \A i \in 1..Len(out) : out[i].kind = "Decl"
    /\ phase = "new_failed" =>
          /\ last.op = "new"
          /\ ncalls = 0
          /\ current_subject = None

C13_Witness ==
    /\ last.op = "new"
    /\ last.ok
    /\ phase = "open"
    /\ Len(out) = 2

\* ---------------------------------------------------------------- C14
\* evs is what a call that would write all of planned has written when one
\* of its writes failed: the writes before the failing one, and nothing
\* after it.
StoppedAt(evs, planned) ==
    /\ Len(evs) < Len(planned)
    /\ evs = SubSeq(planned, 1, Len(evs))

\* C14: when a write fails during format or finish, the call returns the
\* error there: the events it wrote before stay written, behind everything
\* written by earlier calls, and it writes nothing after the failing write;
\* a failing finish does not return the sink.
C14_FailFast ==
    [][ (nerrs' # nerrs \/ (phase = "open" /\ phase' = "finish_failed")) =>
           LET written == SubSeq(out', Len(out) + 1, Len(out'))
           IN  /\ failed'
               /\ ~last'.ok
               /\ Len(out') >= Len(out)
               /\ SubSeq(out', 1, Len(out)) = out
               /\ last'.op = "format" =>
                     /\ \E t \in Triples :
                           StoppedAt(written, FormatEvents(current_subject, t))
                     /\ phase' = "open"
               /\ last'.op = "finish" =>
                     /\ StoppedAt(written, FinishEvents(current_subject))
                     /\ phase' = "finish_failed"
      ]_vars

C14_Witness ==
    /\ last.op = "format"
    /\ ~last.ok
    /\ Len(Emitted) = 3
    /\ Emitted[1] = End(STR_rdf_Description)
    /\ Emitted[3].kind = "Start"

\* ---------------------------------------------------------------- C19
\* C19: a format call that returns an error leaves current_subject as it
\* was before the call, also when the call has already written the end tag
\* of the previous rdf:Description or the start tag of a new one.
C19_StateOnFailure ==
    (last.op = "format" /\ ~last.ok) =>
        /\ current_subject = last.pre
        /\ triples = << >> => current_subject = None
        /\ triples # << >> => current_subject = Some(LastTriple.subject)

C19_Witness ==
    /\ last.op = "format"
    /\ ~last.ok
    /\ Len(Emitted) = 2
    /\ Emitted[1] = End(STR_rdf_Description)
    /\ IsDescriptionStart(Emitted[2])
    /\ current_subject # Some([kind |-> "NamedNode", iri |-> Emitted[2].attrs[1][2]])
    /\ current_subject # Some([kind |-> "BlankNode", id |-> Emitted[2].attrs[1][2]])

\* ---------------------------------------------------------------- C15
Names(stack) == [i \in 1..Len(stack) |-> stack[i].name]

\* C15: between operations, while no operation has returned an error and
\* finish has not been called, the open elements are exactly rdf:RDF when
\* current_subject is None and exactly rdf:RDF, rdf:Description when it is
\* Some: a subject element is open iff current_subject is Some, at most one
\* is open, and no property element stays open across calls.
C15_OpenElements ==
    (~failed /\ phase = "open") =>
        /\ Nesting(out).ok
        /\ Names(Nesting(out).stack) =
              IF is_none(current_subject)
              THEN << STR_rdf_RDF >>
              ELSE << STR_rdf_RDF, STR_rdf_Description >>
        /\ is_some(current_subject) =>
              IsDescriptionStart(Nesting(out).stack[2])

C15_Witness ==
    /\ ~failed
    /\ phase = "open"
    /\ Len(triples) = 3
    /\ triples[1].subject # triples[2].subject
    /\ triples[3].object.kind = "Simple"
    /\ Len(Nesting(out).stack) = 2

\* ---------------------------------------------------------------- C16
\* C16: a successful format(t) with t.subject different from
\* current_subject writes, in this order, the rdf:Description end tag (iff
\* current_subject was Some), the new rdf:Description start tag, and the
\* events of the property element; with t.subject equal to current_subject
\* it writes no rdf:Description start or end tag, only the events of the
\* property element.
C16_BoundaryOrder ==
    Formatted =>
        LET t == LastTriple
            closing == IF is_some(last.pre) THEN 1 ELSE 0
            tagged(e) == e.kind \in {"Start", "End"} /\ e.name = STR_rdf_Description
        IN  IF last.pre # Some(t.subject)
            THEN /\ Len(Emitted) >= closing + 2
                 /\ closing = 1 => Emitted[1] = End(STR_rdf_Description)
                 /\ Emitted[closing + 1].kind = "Start"
                 /\ Emitted[closing + 1].name = STR_rdf_Description
                 /\ closing = 0 => Emitted[1].kind # "End"
                 /\ SubSeq(Emitted, closing + 2, Len(Emitted)) =
                       PropertyEvents(t.predicate, t.object)
            ELSE /\ Len(Emitted) >= 1
                 /\ \A i \in 1..Len(Emitted) : ~tagged(Emitted[i])
                 /\ Emitted = PropertyEvents(t.predicate, t.object)

\* ---------------------------------------------------------------- C17
\* C17: subjects are compared by variant and string.  A successful format(t)
\* on a formatter with an open subject element closes it and opens a new one
\* exactly when t.subject differs from current_subject in its variant or in
\* its string; a named node and a blank node with the same string differ.
C17_StructuralComparison ==
    (Formatted /\ is_some(last.pre)) =>
        LET a == unwrap(last.pre)
            b == LastTriple.subject
            str(n) == IF n.kind = "NamedNode" THEN n.iri ELSE n.id
            same == a.kind = b.kind /\ str(a) = str(b)
            reopened == /\ Len(Emitted) >= 2
                        /\ Emitted[1] = End(STR_rdf_Description)
                        /\ IsDescriptionStart(Emitted[2])
        IN  /\ reopened <=> ~same
            /\ reopened =>
                  Emitted[2].attrs[1] =
                     <<IF b.kind = "NamedNode" THEN "rdf:about" ELSE "rdf:nodeID", str(b)>>

C17_Witness ==
    /\ Formatted
    /\ last.pre = Some(NamedNode(<<"s">>))
    /\ LastTriple.subject = BlankNode(<<"s">>)
    /\ Emitted[1] = End(STR_rdf_Description)

\* ---------------------------------------------------------------- C18
\* The events written by the last operation of formatter f.
EmittedBy(f) == SubSeq(f.out, f.last.from + 1, Len(f.out))

\* The subject of the last triple f formatted before its last format call.
SubjectBefore(f) ==
    IF Len(f.triples) < 2 THEN None
                          ELSE Some(f.triples[Len(f.triples) - 1].subject)

\* The subject of the last triple f formatted.
SubjectOf(f) ==
    IF f.triples = << >> THEN None
                         ELSE Some(f.triples[Len(f.triples)].subject)

\* C18: the events of a successful format(t) depend only on t and on
\* current_subject.  Two formatters whose last operation is a successful
\* format of the same triple, entered with equal current_subject or with the
\* same last formatted subject, have written the same events in it, whatever
\* else they formatted before; two formatters finished after the same last
\* formatted subject have written the same events in finish.
C18_HistoryIndependence ==
    LET f == Formatter
        g == twin
    IN  /\ ( /\ f.last.op = "format" /\ f.last.ok
             /\ g.last.op = "format" /\ g.last.ok
             /\ f.triples[Len(f.triples)] = g.triples[Len(g.triples)]
             /\ (f.last.pre = g.last.pre \/ SubjectBefore(f) = SubjectBefore(g)) )
           => EmittedBy(f) = EmittedBy(g)
        /\ ( /\ f.last.op = "finish" /\ f.last.ok
             /\ g.last.op = "finish" /\ g.last.ok
             /\ SubjectOf(f) = SubjectOf(g) )
           => EmittedBy(f) = EmittedBy(g)

\* Two formatters with different histories (one has written a predicate the
\* other has not), both crossing a subject boundary with the same triple.
C18_Witness ==
    /\ last.op = "format" /\ last.ok
    /\ twin.last.op = "format" /\ twin.last.ok
    /\ Len(triples) = 3
    /\ Len(twin.triples) = 2
    /\ triples[3] = twin.triples[2]
    /\ triples[1].predicate # twin.triples[1].predicate
    /\ SubjectBefore(Formatter) = SubjectBefore(twin)
    /\ SubjectBefore(Formatter) # Some(triples[3].subject)
    /\ Len(EmittedBy(twin)) = 3

====
